---- MODULE Spec2Model ----
(***************************************************************************)
(* Client-side fetch / cache / retry layer of the stock dashboard.         *)
(*                                                                         *)
(*   SpecGrid   TopStocksGrid.tsx: the per-index memory cache, the index   *)
(*              tabs (handleIndexChange), the refresh button               *)
(*              (handleManualRefresh) and the completions of fetchStocks.  *)
(*   SpecRetry  api.ts: retryApiRequest and the timeout retry of the       *)
(*              axios response interceptor; FairSpecRetry adds that every  *)
(*              awaited request settles and every timer fires.             *)
(*                                                                         *)
(* Time is counted in minutes.  A network response carries the pair        *)
(* <<index, request number>> as its stock list, so that the list stored or *)
(* shown can be traced to the request that delivered it.                   *)
(***************************************************************************)
EXTENDS Integers, Sequences, FiniteSets, TLC

VARIABLES
    \* ---- TopStocksGrid (React state of the component) ----
    mounted,        \* the mount effect has run
    topStocks,      \* useState<TopStock[]>([])
    loading,        \* useState(false)
    error,          \* useState<string | null>(null)
    selectedIndex,  \* useState<string>('all')
    lastUpdated,    \* useState<Date | null>(null)
    cache,          \* useState<Record<string, CacheData>>({})
    now,            \* Date.now(), in minutes
    inflight,       \* network calls awaited by a running fetchStocks
    nextId,         \* number of the next network call
    ev,             \* the handler or completion that produced this state
    lastGood,       \* history: per index, what the last successful fetch stored
    \* ---- retryApiRequest ----
    rPc,            \* position in retryApiRequest
    rMaxRetries,    \* argument maxRetries
    rDelay,         \* argument delay
    rI,             \* loop variable i
    rLastError,     \* let lastError
    rTimer,         \* duration of the setTimeout being awaited
    rResult,        \* value the promise settled with
    rCalls,         \* outcomes of the invocations of requestFn, in order
    \* ---- axios response interceptor ----
    xPc,            \* position of one request sent through the instance
    xHasConfig,     \* error.config is set
    xSent,          \* times the request was put on the wire (saturating)
    xResult,        \* what the original caller receives
    xErr,           \* the error the rejected handler was last called with
    xTimer,         \* ms of the pending setTimeout of the interceptor, 0 when none
    \* ---- AuthContext: AuthProvider ----
    aPc,            \* "unmounted", "anonymous", "fetching" (fetchUserInfo running), "done"
    aUser,          \* useState<User | null>(null)
    aToken,         \* useState(localStorage.getItem('token')), and localStorage's copy
    aResponses,     \* history: how each invocation of fetchUserData ended
    \* ---- useStock(symbol) ----
    hVariant,       \* which hook is mounted: "frontend" or "src" ("none" before the mount)
    hSymbol,        \* the symbol argument of the last render
    hData,          \* useState<StockInfo | null>(null)
    hLoading,       \* useState(true)
    hError,         \* useState<string | null>(null)
    hInflight,      \* getStockInfo calls awaiting their result: [id, symbol]
    hNextId,        \* number of the next call
    hEffects,       \* history: the symbol of every run of the effect
    hCalls,         \* history: the symbol of every getStockInfo call
    hEv,            \* the step that produced this state: [op, id, arg]
    \* ---- StockSearch ----
    sQuery,         \* useState(""): the text of the input, a sequence of characters
    sSuggestions,   \* useState<StockSuggestion[]>([])
    sIsLoading,     \* useState(false)
    sInflight,      \* searchStocks calls awaiting their result: [id, query]
    sNextId,        \* number of the next call
    sOnSearch,      \* history: the arguments of every onSearch call
    sSelected,      \* history: the symbol last passed to onSelect
    sLatest,        \* history: the call made for the latest input (0: none)
    sExpected,      \* history: what the latest input should show once settled
    sEv,            \* the step that produced this state: [op, id, arg]
    \* ---- StockChart ----
    vPeriod,        \* useState<ChartPeriod>('1d')
    vInterval,      \* useState<ChartInterval>('1h')
    vSelectedRange, \* useState('1D')
    cSymbol,        \* the symbol argument of useStockChart ("none" before the first render)
    \* ---- getStockChart + useStockChart, one fetch ----
    cPc,            \* position: "idle", "awaiting" (api.get), "service" (getStockChart settled), "done"
    cBody,          \* response.data of the chart request
    cService,       \* what stockService.getStockChart settled with
    cData,          \* useState<any[]>([])
    cLoading,       \* useState(true)
    cError          \* useState<string | null>(null)

gridVars == <<mounted, topStocks, loading, error, selectedIndex, lastUpdated,
              cache, now, inflight, nextId, ev, lastGood>>
retryVars == <<rPc, rMaxRetries, rDelay, rI, rLastError, rTimer, rResult, rCalls>>
xVars == <<xPc, xHasConfig, xSent, xResult, xErr, xTimer>>
authVars == <<aPc, aUser, aToken, aResponses>>
hookVars == <<hVariant, hSymbol, hData, hLoading, hError, hInflight, hNextId,
              hEffects, hCalls, hEv>>
\* the components added below: AuthContext, the useStock hook, the chart pipeline
chartVars == <<cPc, cBody, cService, cData, cLoading, cError, cSymbol>>
searchVars == <<sQuery, sSuggestions, sIsLoading, sInflight, sNextId, sOnSearch,
                sSelected, sLatest, sExpected, sEv>>
viewVars == <<vPeriod, vInterval, vSelectedRange>>
uiVars == <<searchVars, viewVars>>
restVars == <<chartVars, authVars, hookVars, uiVars>>
vars == <<gridVars, retryVars, xVars, restVars>>

-----------------------------------------------------------------------------
(* Bounds of the model *)

\* network calls one behaviour may issue
MaxReq == 3
\* last minute the clock reaches
MaxNow == 6
\* largest maxRetries argument tried
MaxRetriesArg == 4
\* value at which the count of sent requests saturates
MaxSent == 4
\* longest array of chart points tried
MaxPoints == 3
\* number of runs of the effect of useStock
MaxEffects == 3
\* number of searchStocks calls
MaxSearches == 3

-----------------------------------------------------------------------------
(* TopStocksGrid *)

\* keys of INDEX_INFO (two of the five tabs)
Keys == {"all", "dow"}

Null == "null"
NoTime == -1
NoEntry == [data |-> <<>>, timestamp |-> NoTime, loading |-> FALSE, present |-> FALSE]
EmptyData == <<>>

\* const CACHE_DURATION = 5 * 60 * 1000, in minutes
CACHE_DURATION == 5

Entry(d, t, l) == [data |-> d, timestamp |-> t, loading |-> l, present |-> TRUE]

\* (Date.now() - cacheData.timestamp.getTime()) < CACHE_DURATION
isCacheValid(cacheData) == (now - cacheData.timestamp) < CACHE_DURATION

\* const isLoading = loading || (currentCacheData?.loading ?? false)
isLoading == loading \/ (cache[selectedIndex].present /\ cache[selectedIndex].loading)

\* what a rejected network call throws
Rejections == {"timeout of 30000ms exceeded", "Network Error", "not an Error"}

\* the catch block of fetchStocks
ErrorMessage(err) ==
    LET errorMessage == IF err = "not an Error" THEN "Failed to fetch stocks" ELSE err
    IN  IF errorMessage = "timeout of 30000ms exceeded"
        THEN "loading timed out, try again"
        ELSE errorMessage

Event(op, k, id) == [op |-> op, key |-> k, id |-> id]

InitGrid ==
    /\ mounted = FALSE
    /\ topStocks = EmptyData
    /\ loading = FALSE
    /\ error = Null
    /\ selectedIndex = "all"
    /\ lastUpdated = NoTime
    /\ cache = [k \in Keys |-> NoEntry]
    /\ now = 0
    /\ inflight = {}
    /\ nextId = 1
    /\ ev = Event("init", "all", 0)
    /\ lastGood = [k \in Keys |-> NoEntry]

\* fetchStocks(indexName) up to its await: the network call is issued
fetchStocksStart(indexName) ==
    /\ nextId <= MaxReq
    /\ loading' = TRUE
    /\ error' = Null
    /\ inflight' = inflight \cup {[key |-> indexName, id |-> nextId]}
    /\ nextId' = nextId + 1

\* handleIndexChange(indexName)
handleIndexChangeBody(indexName) ==
    /\ selectedIndex' = indexName
    /\ IF cache[indexName].present /\ isCacheValid(cache[indexName])
       THEN /\ topStocks' = cache[indexName].data
            /\ lastUpdated' = cache[indexName].timestamp
            /\ loading' = FALSE
            /\ error' = Null
            /\ UNCHANGED <<cache, inflight, nextId>>
       ELSE /\ cache' = [cache EXCEPT ![indexName] = Entry(EmptyData, now, TRUE)]
            /\ fetchStocksStart(indexName)
            /\ UNCHANGED <<topStocks, lastUpdated>>

\* useEffect(() => { handleIndexChange('all') }, [])
Mount ==
    /\ UNCHANGED <<lastGood, retryVars, xVars, restVars>>
    /\ ~mounted
    /\ mounted' = TRUE
    /\ handleIndexChangeBody("all")
    /\ ev' = Event("mount", "all", nextId)
    /\ UNCHANGED now

\* a click on an index tab (rendered in all three views)
handleIndexChange(indexName) ==
    /\ UNCHANGED <<lastGood, retryVars, xVars, restVars>>
    /\ mounted
    /\ handleIndexChangeBody(indexName)
    /\ ev' = Event("select", indexName, nextId)
    /\ UNCHANGED <<mounted, now>>

\* a refresh that serves a valid cached entry instead of fetching
handleManualRefreshCached ==
    /\ UNCHANGED <<lastGood, retryVars, xVars, restVars>>
    /\ mounted
    /\ ~isLoading
    /\ IF cache[selectedIndex].present /\ isCacheValid(cache[selectedIndex])
       THEN /\ topStocks' = cache[selectedIndex].data
            /\ loading' = FALSE
            /\ error' = Null
            /\ UNCHANGED <<inflight, nextId>>
       ELSE /\ fetchStocksStart(selectedIndex)
            /\ UNCHANGED topStocks
    /\ ev' = Event("refresh", selectedIndex, nextId)
    /\ UNCHANGED <<mounted, selectedIndex, lastUpdated, cache, now>>

\* a click on a refresh / retry button (rendered only when not isLoading)
handleManualRefresh ==
    /\ UNCHANGED <<lastGood, retryVars, xVars, restVars>>
    /\ mounted
    /\ ~isLoading
    /\ fetchStocksStart(selectedIndex)
    /\ ev' = Event("refresh", selectedIndex, nextId)
    /\ UNCHANGED <<mounted, topStocks, selectedIndex, lastUpdated, cache, now>>

\* the awaited call resolves with {success: true, data}
FetchSuccess(r) ==
    /\ UNCHANGED <<retryVars, xVars, restVars>>
    /\ lastGood' = [lastGood EXCEPT ![r.key] = Entry(<<r.key, r.id>>, now, FALSE)]
    /\ r \in inflight
    /\ inflight' = inflight \ {r}
    /\ topStocks' = <<r.key, r.id>>
    /\ lastUpdated' = now
    /\ cache' = [cache EXCEPT ![r.key] = Entry(<<r.key, r.id>>, now, FALSE)]
    /\ loading' = FALSE
    /\ ev' = Event("success", r.key, r.id)
    /\ UNCHANGED <<mounted, error, selectedIndex, now, nextId>>

\* shapes of response.data that are not a stock list: absent, or an object
MalformedShapes == {"undefined", "object"}

\* stockData.length on an undefined stockData
LengthError == "Cannot read properties of undefined (reading 'length')"

\* the awaited call resolves with {success: true, data} where data is no array:
\* the branch stores it like a list; the log of stockData.length then throws
\* when data is absent, and the catch block sets the error
FetchSuccessMalformed(r, shape) ==
    /\ UNCHANGED <<lastGood, retryVars, xVars, restVars>>
    /\ r \in inflight
    /\ inflight' = inflight \ {r}
    /\ topStocks' = <<shape, r.id>>
    /\ lastUpdated' = now
    /\ cache' = [cache EXCEPT ![r.key] = Entry(<<shape, r.id>>, now, FALSE)]
    /\ error' = IF shape = "undefined" THEN ErrorMessage(LengthError) ELSE error
    /\ loading' = FALSE
    /\ ev' = Event("malformed", r.key, r.id)
    /\ UNCHANGED <<mounted, selectedIndex, now, nextId>>

\* the awaited call resolves with {success: false, ...}
FetchSuccessFalse(r) ==
    /\ UNCHANGED <<lastGood, retryVars, xVars, restVars>>
    /\ r \in inflight
    /\ inflight' = inflight \ {r}
    /\ error' = "Failed to fetch stocks"
    /\ loading' = FALSE
    /\ ev' = Event("failure", r.key, r.id)
    /\ UNCHANGED <<mounted, topStocks, selectedIndex, lastUpdated, cache, now, nextId>>

\* the awaited call rejects
FetchReject(r, err) ==
    /\ UNCHANGED <<lastGood, retryVars, xVars, restVars>>
    /\ r \in inflight
    /\ inflight' = inflight \ {r}
    /\ error' = ErrorMessage(err)
    /\ loading' = FALSE
    /\ ev' = Event("failure", r.key, r.id)
    /\ UNCHANGED <<mounted, topStocks, selectedIndex, lastUpdated, cache, now, nextId>>

\* a minute passes
Tick ==
    /\ UNCHANGED <<lastGood, retryVars, xVars, restVars>>
    /\ now < MaxNow
    /\ now' = now + 1
    /\ ev' = Event("tick", ev.key, 0)
    /\ UNCHANGED <<mounted, topStocks, loading, error, selectedIndex, lastUpdated,
                   cache, inflight, nextId>>

NextGrid ==
    \/ Mount
    \/ \E k \in Keys : handleIndexChange(k)
    \/ handleManualRefresh
    \/ \E r \in inflight : FetchSuccess(r)
    \/ \E r \in inflight : FetchSuccessFalse(r)
    \/ \E r \in inflight, err \in Rejections : FetchReject(r, err)
    \/ Tick

-----------------------------------------------------------------------------
(* retryApiRequest(requestFn, maxRetries, delay) *)

\* what an invocation of requestFn may throw
RErrors == {"timeout", "network"}
\* what an invocation of requestFn may return
RPayloads == {"p1", "p2"}
\* delay arguments tried, in ms (1000 is the default and AuthContext's argument)
RDelays == {1000, 500}

InitRetry ==
    /\ rPc = "idle"
    /\ rMaxRetries = 0
    /\ rDelay = 0
    /\ rI = 0
    /\ rLastError = "undefined"
    /\ rTimer = 0
    /\ rResult = Null
    /\ rCalls = <<>>

\* a loop that stops one iteration early
LoopTestOffByOne(i, maxRetries) == i < maxRetries - 1

\* the loop test i < maxRetries
LoopTest(i, maxRetries) == i < maxRetries

\* no wait after any failed attempt
WaitTestNever(i, maxRetries) == FALSE

\* if (i < maxRetries - 1): is there a wait after the failed attempt i
WaitTest(i, maxRetries) == i < maxRetries - 1

\* a wait that is one step short: delay * i
BackoffDelayFromZero(delay, i) == delay * i

\* setTimeout(resolve, delay * (i + 1))
BackoffDelay(delay, i) == delay * (i + 1)

\* the call: the loop is entered with i = 0, or left at once with throw lastError!
RetryCallBody(maxRetries, delay) ==
    /\ rPc = "idle"
    /\ rMaxRetries' = maxRetries
    /\ rDelay' = delay
    /\ rI' = 0
    /\ rCalls' = <<>>
    /\ rTimer' = 0
    /\ IF LoopTest(0, maxRetries)
       THEN rPc' = "calling" /\ rResult' = rResult
       ELSE rPc' = "rejected" /\ rResult' = rLastError
    /\ UNCHANGED rLastError

RetryCall(maxRetries, delay) ==
    /\ RetryCallBody(maxRetries, delay)
    /\ UNCHANGED <<gridVars, xVars, restVars>>

\* return await requestFn(): the invocation resolves with v
RequestFnResolvesBody(v) ==
    /\ rPc = "calling"
    /\ rCalls' = Append(rCalls, v)
    /\ rResult' = v
    /\ rPc' = "resolved"
    /\ UNCHANGED <<rMaxRetries, rDelay, rI, rLastError, rTimer>>

RequestFnResolves(v) ==
    /\ RequestFnResolvesBody(v)
    /\ UNCHANGED <<gridVars, xVars, restVars>>

\* catch (error): the invocation throws e
RequestFnRejectsBody(e) ==
    /\ rPc = "calling"
    /\ rCalls' = Append(rCalls, e)
    /\ rLastError' = e
    /\ IF WaitTest(rI, rMaxRetries)
       THEN \* await new Promise(resolve => setTimeout(resolve, delay * (i + 1)))
            /\ rTimer' = BackoffDelay(rDelay, rI)
            /\ rPc' = "backoff"
            /\ UNCHANGED <<rI, rResult>>
       ELSE \* i++, then the loop test
            /\ rI' = rI + 1
            /\ IF LoopTest(rI + 1, rMaxRetries)
               THEN rPc' = "calling" /\ rResult' = rResult
               ELSE rPc' = "rejected" /\ rResult' = e
            /\ UNCHANGED rTimer
    /\ UNCHANGED <<rMaxRetries, rDelay>>

RequestFnRejects(e) ==
    /\ RequestFnRejectsBody(e)
    /\ UNCHANGED <<gridVars, xVars, restVars>>

\* the timer fires: i++, the loop test, the next invocation
BackoffElapsedBody ==
    /\ rPc = "backoff"
    /\ rI' = rI + 1
    /\ rTimer' = 0
    /\ IF LoopTest(rI + 1, rMaxRetries)
       THEN rPc' = "calling" /\ rResult' = rResult
       ELSE rPc' = "rejected" /\ rResult' = rLastError
    /\ UNCHANGED <<rMaxRetries, rDelay, rLastError, rCalls>>

BackoffElapsed ==
    /\ BackoffElapsedBody
    /\ UNCHANGED <<gridVars, xVars, restVars>>

NextRetryApiRequest ==
    \/ \E m \in 0..MaxRetriesArg, d \in RDelays : RetryCall(m, d)
    \/ \E v \in RPayloads : RequestFnResolves(v)
    \/ \E e \in RErrors : RequestFnRejects(e)
    \/ BackoffElapsed

-----------------------------------------------------------------------------
(* api.interceptors.response: one request sent through the axios instance *)

Min(a, b) == IF a < b THEN a ELSE b

\* an AxiosError as the rejected handler reads it: error.code, whether
\* error.message contains 'timeout', and the HTTP status (0: no response)
XError(code, timeoutInMessage, status) ==
    [code |-> code, timeoutInMessage |-> timeoutInMessage, status |-> status]

NoError == XError("none", FALSE, 0)

XErrors ==
    { XError("ECONNABORTED", TRUE, 0),      \* timeout of 30000ms exceeded
      XError("ETIMEDOUT", TRUE, 0),         \* the same with clarifyTimeoutError
      XError("ERR_NETWORK", FALSE, 0),      \* Network Error
      XError("ERR_BAD_REQUEST", FALSE, 404),
      XError("ERR_BAD_RESPONSE", FALSE, 500) }

\* a test that takes every error for a timeout
IsTimeoutAlways(err) == TRUE

\* error.code === 'ECONNABORTED' || error.message.includes('timeout')
IsTimeout(err) == err.code = "ECONNABORTED" \/ err.timeoutInMessage

\* setTimeout(resolve, 3000)
XRetryWait == 3000

InitX ==
    /\ xPc = "idle"
    /\ xTimer = 0
    /\ xErr = NoError
    /\ xHasConfig = FALSE
    /\ xSent = 0
    /\ xResult = Null

\* api.get(...): the request is put on the wire
XRequest ==
    /\ xPc = "idle"
    /\ xPc' = "inflight"
    /\ xSent' = 1
    /\ UNCHANGED <<xHasConfig, xResult, xErr, xTimer>>
    /\ UNCHANGED <<gridVars, retryVars, restVars>>

\* the fulfilled handler: the response is passed on
XResponse ==
    /\ xPc = "inflight"
    /\ xPc' = "resolved"
    /\ xResult' = "response"
    /\ UNCHANGED <<xHasConfig, xSent, xErr, xTimer>>
    /\ UNCHANGED <<gridVars, retryVars, restVars>>

\* the rejected handler, error.code === 'ECONNABORTED' or a 'timeout' message
XTimeout(err, hasConfig) ==
    /\ xPc = "inflight"
    /\ IsTimeout(err)
    /\ xErr' = err
    /\ xHasConfig' = hasConfig
    /\ IF hasConfig
       THEN \* await new Promise(resolve => setTimeout(resolve, 3000))
            xPc' = "backoff" /\ xResult' = xResult /\ xTimer' = XRetryWait
       ELSE \* return Promise.reject(error)
            xPc' = "rejected" /\ xResult' = "timeout" /\ xTimer' = xTimer
    /\ UNCHANGED xSent
    /\ UNCHANGED <<gridVars, retryVars, restVars>>

\* the rejected handler, any other error: return Promise.reject(error)
XOtherError(err) ==
    /\ xPc = "inflight"
    /\ ~IsTimeout(err)
    /\ xErr' = err
    /\ xPc' = "rejected"
    /\ xResult' = "error"
    /\ UNCHANGED <<xHasConfig, xSent, xTimer>>
    /\ UNCHANGED <<gridVars, retryVars, restVars>>

\* return api.request(originalRequest): the request goes through the same interceptors
XReissue ==
    /\ xPc = "backoff"
    /\ xPc' = "inflight"
    /\ xSent' = Min(xSent + 1, MaxSent)
    /\ UNCHANGED <<xHasConfig, xResult, xErr>>
    /\ xTimer' = 0
    /\ UNCHANGED <<gridVars, retryVars, restVars>>

NextX ==
    \/ XRequest
    \/ XResponse
    \/ \E err \in XErrors, c \in BOOLEAN : XTimeout(err, c)
    \/ \E err \in XErrors : XOtherError(err)
    \/ XReissue

-----------------------------------------------------------------------------
(* stockService.getStockChart and the response handling of useStockChart *)

\* typeof of a field of a raw point
Good(id) == [isNull |-> FALSE, timestamp |-> "string", open |-> "number",
             high |-> "number", low |-> "number", close |-> "number",
             volume |-> "number", id |-> id]

\* raw points the backend may send: valid ones, null, and one defect per field
NullPoint == [Good(0) EXCEPT !.isNull = TRUE]
RawPoints ==
    { Good(1), Good(2), NullPoint,
      [Good(3) EXCEPT !.timestamp = "number"],
      [Good(4) EXCEPT !.open = "string"],
      [Good(5) EXCEPT !.high = "undefined"],
      [Good(6) EXCEPT !.low = "string"],
      [Good(7) EXCEPT !.close = "undefined"],
      [Good(8) EXCEPT !.volume = "undefined"] }

PointArrays == UNION {[1..n -> RawPoints] : n \in 0..MaxPoints}

\* response.data: kind "null" is no body, "failure" is {success: false},
\* "noData" is {success: true}, "noInner" is {success: true, data: {}},
\* "innerObject" is {success: true, data: {data: {...}}}, "array" is
\* {success: true, data: {data: [...points]}}; "rejected" is api.get rejecting
Body(kind, points) == [kind |-> kind, points |-> points]
BodyKinds == {"null", "failure", "noData", "noInner", "innerObject", "rejected"}
Bodies == {Body(k, <<>>) : k \in BodyKinds} \cup {Body("array", pts) : pts \in PointArrays}

BodyTruthy(b) == b.kind # "null"
SuccessTruthy(b) == b.kind \in {"noData", "noInner", "innerObject", "array"}
DataTruthy(b) == b.kind \in {"noInner", "innerObject", "array"}
InnerTruthy(b) == b.kind \in {"innerObject", "array"}
InnerIsArray(b) == b.kind = "array"

\* getStockChart: const isValid = point && typeof point.timestamp === 'string' && ...
ServiceIsValid(point) ==
    /\ ~point.isNull
    /\ point.timestamp = "string"
    /\ point.open = "number"
    /\ point.high = "number"
    /\ point.low = "number"
    /\ point.close = "number"
    /\ point.volume = "number"

\* a hook filter that rejects what the service filter accepts
HookIsValidTimestampNumber(point) ==
    /\ ~point.isNull
    /\ point.timestamp = "number"
    /\ point.open = "number"
    /\ point.high = "number"
    /\ point.low = "number"
    /\ point.close = "number"
    /\ point.volume = "number"

\* useStockChart: the predicate of the re-validation filter
HookIsValid(point) ==
    /\ ~point.isNull
    /\ point.timestamp = "string"
    /\ point.open = "number"
    /\ point.high = "number"
    /\ point.low = "number"
    /\ point.close = "number"
    /\ point.volume = "number"

ServiceFilter(points) == SelectSeq(points, ServiceIsValid)
HookFilter(points) == SelectSeq(points, HookIsValid)

Resolved(b) == [status |-> "resolved", body |-> b, message |-> Null]
Rejected(msg) == [status |-> "rejected", body |-> Body("null", <<>>), message |-> msg]

\* Object.keys(x) throws a TypeError when x is null
NullKeysError == "Cannot convert undefined or null to object"

\* stockService.getStockChart, from the settling of api.get to its own
getStockChart(b) ==
    IF b.kind = "rejected" THEN Rejected("Network Error")
    ELSE IF ~BodyTruthy(b) THEN Rejected(NullKeysError)
    ELSE IF SuccessTruthy(b) /\ DataTruthy(b) /\ InnerTruthy(b)
            /\ InnerIsArray(b) /\ Len(b.points) > 0
         THEN IF b.points[1].isNull
              THEN Rejected(NullKeysError)
              ELSE Resolved(Body("array", ServiceFilter(b.points)))
         ELSE Resolved(b)

InitChart ==
    /\ cPc = "idle"
    /\ cSymbol = "none"
    /\ cBody = Body("null", <<>>)
    /\ cService = Rejected(Null)
    /\ cData = <<>>
    /\ cLoading = TRUE
    /\ cError = Null

ChartSymbols == {"", "AAPL"}

\* a render of useStockChart with a new symbol: the effect runs; it returns at
\* once when the symbol is empty, else the request is sent
ChartEffect(symbol) ==
    /\ cPc = "idle"
    /\ symbol # cSymbol
    /\ cSymbol' = symbol
    /\ IF symbol = ""
       THEN UNCHANGED <<cPc, cLoading, cError>>
       ELSE /\ cPc' = "awaiting"
            /\ cLoading' = TRUE
            /\ cError' = Null
    /\ UNCHANGED <<cBody, cService, cData>>
    /\ UNCHANGED <<gridVars, retryVars, xVars, authVars, hookVars, uiVars>>

\* api.get settles with body b
ChartResponse(b) ==
    /\ cPc = "awaiting"
    /\ cBody' = b
    /\ cService' = getStockChart(b)
    /\ cPc' = "service"
    /\ UNCHANGED <<cData, cLoading, cError, cSymbol>>
    /\ UNCHANGED <<gridVars, retryVars, xVars, authVars, hookVars, uiVars>>

\* useStockChart after the await: try / catch / finally
ChartHandle ==
    /\ cPc = "service"
    /\ cPc' = "done"
    /\ cLoading' = FALSE
    /\ LET response == cService.body IN
       IF cService.status = "rejected"
       THEN cError' = cService.message /\ cData' = cData
       ELSE IF BodyTruthy(response) /\ SuccessTruthy(response) /\ DataTruthy(response)
               /\ InnerTruthy(response) /\ InnerIsArray(response)
            THEN IF Len(response.points) = 0
                 THEN cData' = <<>> /\ cError' = cError
                 ELSE IF response.points[1].isNull
                      THEN cError' = NullKeysError /\ cData' = cData
                      ELSE cData' = HookFilter(response.points) /\ cError' = cError
            ELSE cError' = "Invalid chart data structure" /\ cData' = cData
    /\ UNCHANGED <<cBody, cService, cSymbol>>
    /\ UNCHANGED <<gridVars, retryVars, xVars, authVars, hookVars, uiVars>>

\* the runs of the effect of useStockChart
NextChartEffect == \E symbol \in ChartSymbols : ChartEffect(symbol)

NextChart ==
    \/ NextChartEffect
    \/ \E b \in Bodies : ChartResponse(b)
    \/ ChartHandle

-----------------------------------------------------------------------------
(* AuthContext: AuthProvider, fetchUserInfo through retryApiRequest *)

Tokens == {"t1"}
Users == {"alice", "bob"}

InitAuth ==
    /\ aPc = "unmounted"
    /\ aUser = Null
    /\ aToken = Null
    /\ aResponses = <<>>

\* logout()
logout ==
    /\ aUser' = Null
    /\ aToken' = Null

\* fetchUserInfo(): await retryApiRequest(fetchUserData, 3, 1000)
fetchUserInfo ==
    /\ RetryCallBody(3, 1000)
    /\ aResponses' = <<>>
    /\ aPc' = "fetching"

\* the provider mounts with the token of localStorage; the token effect
\* calls fetchUserInfo when there is one
AuthMount(stored) ==
    /\ aPc = "unmounted"
    /\ aToken' = stored
    /\ aUser' = aUser
    /\ IF stored # Null
       THEN fetchUserInfo
       ELSE aPc' = "anonymous" /\ UNCHANGED <<aResponses, retryVars>>
    /\ UNCHANGED <<gridVars, xVars, chartVars, hookVars, uiVars>>

\* login() with response.ok: setToken, setUser; the token effect then calls
\* fetchUserInfo
LoginOk(t, u) ==
    /\ aPc = "anonymous"
    /\ aToken' = t
    /\ aUser' = u
    /\ fetchUserInfo
    /\ UNCHANGED <<gridVars, xVars, chartVars, hookVars, uiVars>>

\* fetchUserData: /auth/me answers 2xx, setUser(userData); requestFn resolves
FetchUserDataOk(u) ==
    /\ aPc = "fetching"
    /\ RequestFnResolvesBody("undefined")
    /\ aResponses' = Append(aResponses, "ok")
    /\ aUser' = u
    /\ UNCHANGED <<aPc, aToken>>
    /\ UNCHANGED <<gridVars, xVars, chartVars, hookVars, uiVars>>

\* fetchUserData: /auth/me answers non-2xx, logout(); requestFn resolves
FetchUserDataNotOk ==
    /\ aPc = "fetching"
    /\ RequestFnResolvesBody("undefined")
    /\ aResponses' = Append(aResponses, "notok")
    /\ logout
    /\ UNCHANGED aPc
    /\ UNCHANGED <<gridVars, xVars, chartVars, hookVars, uiVars>>

\* fetchUserData: fetch rejects (or response.json() throws); requestFn rejects
FetchUserDataThrows ==
    /\ aPc = "fetching"
    /\ RequestFnRejectsBody("network")
    /\ aResponses' = Append(aResponses, "throw")
    /\ UNCHANGED <<aPc, aUser, aToken>>
    /\ UNCHANGED <<gridVars, xVars, chartVars, hookVars, uiVars>>

\* the backoff timer of retryApiRequest fires
AuthBackoffElapsed ==
    /\ aPc = "fetching"
    /\ BackoffElapsedBody
    /\ UNCHANGED authVars
    /\ UNCHANGED <<gridVars, xVars, chartVars, hookVars, uiVars>>

\* retryApiRequest resolved: fetchUserInfo returns
FetchUserInfoReturns ==
    /\ aPc = "fetching"
    /\ rPc = "resolved"
    /\ aPc' = "done"
    /\ UNCHANGED <<aUser, aToken, aResponses>>
    /\ UNCHANGED <<gridVars, retryVars, xVars, chartVars, hookVars, uiVars>>

\* retryApiRequest threw: the catch block of fetchUserInfo logs out
FetchUserInfoCatch ==
    /\ aPc = "fetching"
    /\ rPc = "rejected"
    /\ aPc' = "done"
    /\ logout
    /\ UNCHANGED aResponses
    /\ UNCHANGED <<gridVars, retryVars, xVars, chartVars, hookVars, uiVars>>

\* the user logs out (logout of the context value) while logged in, whether
\* or not fetchUserInfo is still running
Logout ==
    /\ aPc \in {"fetching", "done"}
    /\ aToken # Null
    /\ logout
    /\ UNCHANGED <<aPc, aResponses>>
    /\ UNCHANGED <<gridVars, retryVars, xVars, chartVars, hookVars, uiVars>>

NextAuth ==
    \/ \E stored \in Tokens \cup {Null} : AuthMount(stored)
    \/ \E t \in Tokens, u \in Users : LoginOk(t, u)
    \/ \E u \in Users : FetchUserDataOk(u)
    \/ FetchUserDataNotOk
    \/ FetchUserDataThrows
    \/ AuthBackoffElapsed
    \/ FetchUserInfoReturns
    \/ FetchUserInfoCatch
    \/ Logout

-----------------------------------------------------------------------------
(* useStock(symbol): frontend/src/hooks/useStock.ts and src/src/hooks/useStock.ts *)

Variants == {"frontend", "src"}
Symbols == {"", "AAPL", "MSFT"}

\* what getStockInfo may resolve with: a StockInfo object ("info"), an envelope
\* {success, data} ("envelope") or undefined; payload names the stock the
\* object (or the envelope's data) describes, "undefined" when there is none
Value(kind, success, payload) == [kind |-> kind, success |-> success, payload |-> payload]
StockInfo(symbol) == Value("info", FALSE, symbol)
Envelope(success, payload) == Value("envelope", success, payload)
Undefined == Value("undefined", FALSE, "undefined")
NullData == Value("null", FALSE, "undefined")

HookValues(symbol) ==
    { StockInfo(symbol), Undefined,
      Envelope(TRUE, symbol), Envelope(TRUE, "undefined"),
      Envelope(FALSE, symbol), Envelope(FALSE, "undefined") }

\* what getStockInfo may reject with: an Error with a message, or another value
Thrown(isError, message) == [isError |-> isError, message |-> message]
HookThrown == {Thrown(TRUE, "API Error"), Thrown(TRUE, "Network Error"), Thrown(FALSE, "")}

HookEvent(op, id, arg) == [op |-> op, id |-> id, arg |-> arg]

InitHook ==
    /\ hVariant = "none"
    /\ hSymbol = ""
    /\ hData = NullData
    /\ hLoading = TRUE
    /\ hError = Null
    /\ hInflight = {}
    /\ hNextId = 1
    /\ hEffects = <<>>
    /\ hCalls = <<>>
    /\ hEv = HookEvent("init", 0, Undefined)

\* an effect that clears the loading flag when the symbol is empty
fetchStockEmptyStopsLoading(symbol) ==
    /\ hEffects' = Append(hEffects, symbol)
    /\ IF symbol = ""
       THEN hLoading' = FALSE /\ UNCHANGED <<hError, hInflight, hNextId, hCalls>>
       ELSE /\ hLoading' = TRUE
            /\ hError' = Null
            /\ hInflight' = hInflight \cup {[id |-> hNextId, symbol |-> symbol]}
            /\ hNextId' = hNextId + 1
            /\ hCalls' = Append(hCalls, symbol)

\* an effect that calls getStockInfo only when no call was made before
fetchStockOnce(symbol) ==
    /\ hEffects' = Append(hEffects, symbol)
    /\ IF symbol = "" \/ hCalls # <<>>
       THEN UNCHANGED <<hLoading, hError, hInflight, hNextId, hCalls>>
       ELSE /\ hLoading' = TRUE
            /\ hError' = Null
            /\ hInflight' = hInflight \cup {[id |-> hNextId, symbol |-> symbol]}
            /\ hNextId' = hNextId + 1
            /\ hCalls' = Append(hCalls, symbol)

\* the effect: fetchStock() up to its await
fetchStock(symbol) ==
    /\ hEffects' = Append(hEffects, symbol)
    /\ IF symbol = ""
       THEN UNCHANGED <<hLoading, hError, hInflight, hNextId, hCalls>>
       ELSE /\ hLoading' = TRUE
            /\ hError' = Null
            /\ hInflight' = hInflight \cup {[id |-> hNextId, symbol |-> symbol]}
            /\ hNextId' = hNextId + 1
            /\ hCalls' = Append(hCalls, symbol)

\* first render of useStock(symbol): the effect runs
HookMount(variant, symbol) ==
    /\ hVariant = "none"
    /\ hVariant' = variant
    /\ hSymbol' = symbol
    /\ fetchStock(symbol)
    /\ hEv' = HookEvent("mount", hNextId, Undefined)
    /\ UNCHANGED hData
    /\ UNCHANGED <<gridVars, retryVars, xVars, chartVars, authVars, uiVars>>

\* a render with another symbol: the dependency [symbol] changed, the effect runs
HookRerender(symbol) ==
    /\ hVariant # "none"
    /\ symbol # hSymbol
    /\ Len(hEffects) < MaxEffects
    /\ hSymbol' = symbol
    /\ fetchStock(symbol)
    /\ hEv' = HookEvent("rerender", hNextId, Undefined)
    /\ UNCHANGED <<hVariant, hData>>
    /\ UNCHANGED <<gridVars, retryVars, xVars, chartVars, authVars, uiVars>>

\* a test of the envelope that ignores its success flag
EnvelopeOkAnySuccess(v) == v.kind = "envelope" /\ v.payload # "undefined"

\* src/src: stockData && stockData.success && stockData.data
EnvelopeOk(v) == v.kind = "envelope" /\ v.success /\ v.payload # "undefined"

\* the awaited getStockInfo resolves with v: the try block, then finally
HookResolve(r, v) ==
    /\ r \in hInflight
    /\ hInflight' = hInflight \ {r}
    /\ IF hVariant = "frontend"
       THEN \* setData(stockData)
            hData' = v /\ hError' = hError
       ELSE IF EnvelopeOk(v)
            THEN \* setData(stockData.data)
                 hData' = StockInfo(v.payload) /\ hError' = hError
            ELSE hError' = "Invalid data structure received" /\ hData' = hData
    /\ hLoading' = FALSE
    /\ hEv' = HookEvent("resolve", r.id, v)
    /\ UNCHANGED <<hVariant, hSymbol, hNextId, hEffects, hCalls>>
    /\ UNCHANGED <<gridVars, retryVars, xVars, chartVars, authVars, uiVars>>

\* a catch block that always reports the fallback text
ErrorTextFallback(e) == "Failed to fetch stock data"

\* err instanceof Error ? err.message : 'Failed to fetch stock data'
ErrorText(e) == IF e.isError THEN e.message ELSE "Failed to fetch stock data"

\* the awaited getStockInfo rejects with e: the catch block, then finally
HookReject(r, e) ==
    /\ r \in hInflight
    /\ hInflight' = hInflight \ {r}
    /\ hError' = ErrorText(e)
    /\ hLoading' = FALSE
    /\ hEv' = HookEvent("reject", r.id, e)
    /\ UNCHANGED <<hVariant, hSymbol, hData, hNextId, hEffects, hCalls>>
    /\ UNCHANGED <<gridVars, retryVars, xVars, chartVars, authVars, uiVars>>

NextHook ==
    \/ \E variant \in Variants, symbol \in Symbols : HookMount(variant, symbol)
    \/ \E symbol \in Symbols : HookRerender(symbol)
    \/ \E r \in hInflight : \E v \in HookValues(r.symbol) : HookResolve(r, v)
    \/ \E r \in hInflight, e \in HookThrown : HookReject(r, e)

-----------------------------------------------------------------------------
(* StockSearch *)

\* texts of the input: 0 to 3 characters
Queries == {<<>>, <<"A">>, <<"A", "A">>, <<"M", "S">>, <<"A", "A", "P">>}

\* results of searchStocks(q): a list naming the query it answers, an empty
\* list, or undefined
Matches(q) == <<q>>
SearchResults(q) == {[defined |-> TRUE, list |-> Matches(q)],
                     [defined |-> TRUE, list |-> <<>>],
                     [defined |-> FALSE, list |-> <<>>]}

SearchEvent(op, id, arg) == [op |-> op, id |-> id, arg |-> arg]

InitSearch ==
    /\ sQuery = <<>>
    /\ sSuggestions = <<>>
    /\ sIsLoading = FALSE
    /\ sInflight = {}
    /\ sNextId = 1
    /\ sOnSearch = <<>>
    /\ sSelected = Null
    /\ sLatest = 0
    /\ sExpected = <<>>
    /\ sEv = SearchEvent("init", 0, <<>>)

\* handleSearch(searchQuery) up to its await
handleSearch(searchQuery) ==
    IF Len(searchQuery) < 2
    THEN /\ sSuggestions' = <<>>
         /\ sLatest' = 0
         /\ sExpected' = <<>>
         /\ UNCHANGED <<sIsLoading, sInflight, sNextId>>
    ELSE /\ sNextId <= MaxSearches
         /\ sIsLoading' = TRUE
         /\ sInflight' = sInflight \cup {[id |-> sNextId, query |-> searchQuery]}
         /\ sNextId' = sNextId + 1
         /\ sLatest' = sNextId
         /\ UNCHANGED <<sSuggestions, sExpected>>

\* handleInputChange: setQuery(value); handleSearch(value)
handleInputChange(value) ==
    /\ value # sQuery
    /\ sQuery' = value
    /\ handleSearch(value)
    /\ sEv' = SearchEvent("input", sNextId, value)
    /\ UNCHANGED <<sOnSearch, sSelected>>
    /\ UNCHANGED <<gridVars, retryVars, xVars, chartVars, authVars, hookVars, viewVars>>

\* the awaited searchStocks resolves: setSuggestions(results || []), finally
SearchResolve(r, results) ==
    /\ r \in sInflight
    /\ sInflight' = sInflight \ {r}
    /\ sSuggestions' = IF results.defined THEN results.list ELSE <<>>
    /\ sIsLoading' = FALSE
    /\ sExpected' = IF r.id = sLatest
                    THEN (IF results.defined THEN results.list ELSE <<>>)
                    ELSE sExpected
    /\ sEv' = SearchEvent("resolve", r.id, r.query)
    /\ UNCHANGED <<sQuery, sNextId, sOnSearch, sSelected, sLatest>>
    /\ UNCHANGED <<gridVars, retryVars, xVars, chartVars, authVars, hookVars, viewVars>>

\* the awaited searchStocks rejects: setSuggestions([]), finally
SearchReject(r) ==
    /\ r \in sInflight
    /\ sInflight' = sInflight \ {r}
    /\ sSuggestions' = <<>>
    /\ sIsLoading' = FALSE
    /\ sExpected' = IF r.id = sLatest THEN <<>> ELSE sExpected
    /\ sEv' = SearchEvent("reject", r.id, r.query)
    /\ UNCHANGED <<sQuery, sNextId, sOnSearch, sSelected, sLatest>>
    /\ UNCHANGED <<gridVars, retryVars, xVars, chartVars, authVars, hookVars, viewVars>>

\* a click on a suggestion (the list is rendered when it is not empty)
handleSuggestionClick ==
    /\ Len(sSuggestions) > 0
    /\ sSelected' = sSuggestions[1]
    /\ sQuery' = <<>>
    /\ sSuggestions' = <<>>
    /\ sLatest' = 0
    /\ sExpected' = <<>>
    /\ sEv' = SearchEvent("click", 0, sSuggestions[1])
    /\ UNCHANGED <<sIsLoading, sInflight, sNextId, sOnSearch>>
    /\ UNCHANGED <<gridVars, retryVars, xVars, chartVars, authVars, hookVars, viewVars>>

NextSearch ==
    \/ \E value \in Queries : handleInputChange(value)
    \/ \E r \in sInflight : \E results \in SearchResults(r.query) : SearchResolve(r, results)
    \/ \E r \in sInflight : SearchReject(r)
    \/ handleSuggestionClick

\* StockChart before a range button is clicked
InitView ==
    /\ vPeriod = "1d"
    /\ vInterval = "1h"
    /\ vSelectedRange = "1D"

-----------------------------------------------------------------------------
(* StockChart: the four views and the range buttons *)

\* a render that tests the empty data before the error
StockChartViewEmptyFirst(busy, err, data) ==
    IF busy THEN "loading"
    ELSE IF Len(data) = 0 THEN "empty"
    ELSE IF err # Null /\ err # "" THEN "error"
    ELSE "chart"

\* the early returns of StockChart: if (loading), if (error),
\* if (!data || data.length === 0), else the chart
StockChartView(busy, err, data) ==
    IF busy THEN "loading"
    ELSE IF err # Null /\ err # "" THEN "error"
    ELSE IF Len(data) = 0 THEN "empty"
    ELSE "chart"

\* the labels of the range buttons
Ranges == {"1D", "5D", "1M", "3M", "6M", "YTD", "1Y", "5Y", "All"}

\* the switch of handleRangeChange: <<period, interval>> set for a range
RangePeriod(range) ==
    CASE range = "1D"  -> <<"1d", "1h">>
      [] range = "5D"  -> <<"5d", "1d">>
      [] range = "1M"  -> <<"1mo", "1d">>
      [] range = "6M"  -> <<"6mo", "1d">>
      [] range = "YTD" -> <<"6mo", "1d">>
      [] range = "1Y"  -> <<"1y", "1d">>
      [] range = "5Y"  -> <<"5y", "1d">>
      [] range = "All" -> <<"max", "1d">>
      [] OTHER         -> <<"1d", "1h">>

\* a click on a range button (rendered in the chart view only); when period
\* or interval changed, the effect of useStockChart runs again
handleRangeChange(range) ==
    /\ StockChartView(cLoading, cError, cData) = "chart"
    /\ cPc = "done"
    /\ vSelectedRange' = range
    /\ vPeriod' = RangePeriod(range)[1]
    /\ vInterval' = RangePeriod(range)[2]
    /\ IF RangePeriod(range) # <<vPeriod, vInterval>>
       THEN \* a new call of fetchChartData; the response of the last one is gone
            /\ cPc' = "awaiting"
            /\ cLoading' = TRUE
            /\ cError' = Null
            /\ cBody' = Body("null", <<>>)
            /\ cService' = Rejected(Null)
       ELSE UNCHANGED <<cPc, cLoading, cError, cBody, cService>>
    /\ UNCHANGED <<cData, cSymbol>>
    /\ UNCHANGED <<gridVars, retryVars, xVars, authVars, hookVars, searchVars>>

\* StockChart with its hook
NextStockChart ==
    \/ NextChart
    \/ \E range \in Ranges : handleRangeChange(range)

-----------------------------------------------------------------------------
(* Specifications *)

Init == InitGrid /\ InitRetry /\ InitX /\ InitChart /\ InitAuth /\ InitHook
        /\ InitSearch /\ InitView

SpecGrid == Init /\ [][NextGrid]_vars

NextRetry == NextRetryApiRequest \/ NextX

SpecRetry == Init /\ [][NextRetry]_vars

\* every awaited request settles and every timer fires
FairSpecRetry == SpecRetry /\ WF_vars(NextRetryApiRequest) /\ WF_vars(NextX)

\* the grid with a backend that may also answer {success: true} with a data
\* field that is no list
NextGridAnyPayload ==
    \/ NextGrid
    \/ \E r \in inflight, shape \in MalformedShapes : FetchSuccessMalformed(r, shape)

SpecGridAnyPayload == Init /\ [][NextGridAnyPayload]_vars

\* the two places that meet HTTP errors: AuthProvider and the axios instance
NextAuthAndX == NextAuth \/ NextX

SpecAuth == Init /\ [][NextAuthAndX]_vars

SpecHook == Init /\ [][NextHook]_vars

SpecSearch == Init /\ [][NextSearch]_vars

SpecStockChart == Init /\ [][NextStockChart]_vars

\* the effects of the two hooks, useStock and useStockChart
NextEmptyKey == NextHook \/ NextChartEffect

SpecEmptyKey == Init /\ [][NextEmptyKey]_vars

SpecChart == Init /\ [][NextChart]_vars

-----------------------------------------------------------------------------
(* Properties of TopStocksGrid, under SpecGrid *)

InFlightFor(k) == {r \in inflight : r.key = k}

\* the time of the last successful fetch of k lies within the TTL
FreshSinceLastFetch(k) ==
    /\ lastGood[k].present
    /\ now - lastGood[k].timestamp < CACHE_DURATION

\* C1 (Freshness): a non-forced resolve of index k (a click on its tab), made
\* while no fetch of k is in flight, issues no network call if and only if
\* the last successful fetch of k is less than CACHE_DURATION old.
C1_Freshness ==
    [][\A k \in Keys :
         (ev'.op = "select" /\ ev'.key = k /\ InFlightFor(k) = {})
            => ((inflight' = inflight) <=> FreshSinceLastFetch(k))]_vars

\* C2 (Single-flight): for every index at most one network call is
\* outstanding at any time.
C2_SingleFlight == \A k \in Keys : Cardinality(InFlightFor(k)) <= 1

\* C3 (Force bypass): every manual refresh issues a new network call for the
\* selected index, whether or not its cached entry is still valid.
C3_ForceBypass ==
    [][ev'.op = "refresh"
         => \E r \in inflight' \ inflight : r.key = selectedIndex /\ r.id = nextId]_vars

\* a manual refresh has just run on an index whose cached entry is valid and
\* not loading, and its network call is the only one outstanding for the index
C3_Witness ==
    /\ ev.op = "refresh"
    /\ cache[ev.key].present
    /\ ~cache[ev.key].loading
    /\ isCacheValid(cache[ev.key])
    /\ InFlightFor(ev.key) = {[key |-> ev.key, id |-> ev.id]}

\* C7 (the last good payload survives an error): when a fetch of index k
\* fails and an earlier fetch of k had succeeded, the cache entry of k still
\* holds the payload and the timestamp that successful fetch stored.
C7_ErrorKeepsPayload ==
    (ev.op = "failure" /\ lastGood[ev.key].present)
        => cache[ev.key] = lastGood[ev.key]

\* C8 (Stale-write protection): a fetch of k that completes after a fetch of
\* k issued later has already stored its payload does not replace that
\* payload, neither in the cache nor in the list shown.
C8_StaleWrite ==
    [][\A k \in Keys :
         (/\ ev'.op = "success" /\ ev'.key = k
          /\ cache[k].present /\ ~cache[k].loading
          /\ cache[k].data[2] > ev'.id)
            => (cache'[k].data = cache[k].data /\ topStocks' # <<k, ev'.id>>)]_vars

\* C9 (no result for an index no longer selected): the completion of a fetch
\* of an index other than the selected one changes neither the list shown
\* nor the error nor the loading flag.
C9_UnobservedResult ==
    [][(ev'.op \in {"success", "failure"} /\ ev'.key # selectedIndex)
         => UNCHANGED <<topStocks, error, loading>>]_vars

\* C10 (Loading ends with the fetch): once a fetch of the selected index has
\* failed and no other fetch of it is outstanding, the component is not in
\* its loading view and shows the error.
C10_FailureLeavesLoading ==
    (ev.op = "failure" /\ ev.key = selectedIndex /\ InFlightFor(ev.key) = {})
        => (~isLoading /\ error # Null)

\* C11 (an entry is fresh only if it is Ready): a click on the tab of index k
\* that issues no network call found an entry of k that is not loading and
\* whose timestamp is less than CACHE_DURATION old.
C11_FreshOnlyIfReady ==
    [][\A k \in Keys :
         (ev'.op = "select" /\ ev'.key = k /\ inflight' = inflight)
            => (cache[k].present /\ ~cache[k].loading /\ isCacheValid(cache[k]))]_vars


\* C22 (effect of a successful fetch): the completion of fetchStocks(k) with
\* success = true sets, in one step, the cache entry of k to the payload with
\* loading false and the completion time, the list shown to the payload,
\* lastUpdated to the completion time and leaves error null and the entries
\* of the other indexes unchanged.
C22_SuccessPut ==
    [][ev'.op = "success" =>
          LET k == ev'.key
              payload == <<ev'.key, ev'.id>>
          IN  /\ cache'[k] = Entry(payload, now, FALSE)
              /\ topStocks' = payload
              /\ lastUpdated' = now
              /\ error' = Null
              /\ \A j \in Keys \ {k} : cache'[j] = cache[j]]_vars

\* C15 (an invalid envelope is an error, never coerced): a completion whose
\* payload is not a list of stocks sets an error and leaves the list shown and
\* the cache as they were.
C15_InvalidEnvelopeIsError ==
    [][ev'.op = "malformed"
          => (error' # Null /\ topStocks' = topStocks /\ cache' = cache)]_vars

-----------------------------------------------------------------------------
(* Properties of the chart pipeline (SpecChart) *)

\* the per-point rule: a point with a string timestamp and numeric
\* open, high, low, close and volume
WellTyped(point) ==
    /\ ~point.isNull
    /\ point.timestamp = "string"
    /\ \A f \in {"open", "high", "low", "close", "volume"} : point[f] = "number"

ChartDone == cPc = "done" /\ cBody.kind = "array"

\* C12 (per-point validation): for every array of raw points in a success
\* envelope the fetch ends without an error and with exactly the well-typed
\* points, in their original order; no point makes the call fail.
C12_PerPointValidation ==
    ChartDone => (cError = Null /\ cData = SelectSeq(cBody.points, WellTyped))

\* C13 (validation idempotence): filtering the output of the service filter
\* again, with the service filter or with the hook filter, drops nothing, and
\* the hook stores what the service filter produced unchanged.
C13_Idempotent ==
    /\ cBody.kind = "array" =>
         LET valid == ServiceFilter(cBody.points) IN
           /\ ServiceFilter(valid) = valid
           /\ HookFilter(valid) = valid
    /\ (cPc = "done" /\ cService.status = "resolved" /\ cService.body.kind = "array")
          => cData = cService.body.points

\* a fetch in which the service filter dropped a point and the hook filter ran
\* on the points that were kept
C13_Witness ==
    /\ ChartDone
    /\ cService.status = "resolved"
    /\ Len(cData) >= 1
    /\ Len(cData) < Len(cBody.points)

\* C14 ("no data" is not an error): a success envelope whose point array is
\* empty or has no well-typed point ends with data [], error null and loading
\* false.
C14_NoDataIsNoError ==
    (ChartDone /\ SelectSeq(cBody.points, WellTyped) = <<>>)
        => (cData = <<>> /\ cError = Null /\ cLoading = FALSE)

\* the errors useStockChart can set
ChartErrors == {"Network Error", NullKeysError, "Invalid chart data structure"}

\* C25 (the empty state is distinct from loading and error): for every hook
\* state StockChart shows one view, loading before error before empty before
\* chart; loading false, error null and data [] shows the empty view.
C25_ViewPrecedence ==
    /\ \A l \in BOOLEAN, e \in ChartErrors \cup {Null}, d \in {<<>>, <<Good(1)>>} :
         StockChartView(l, e, d) =
            IF l THEN "loading"
            ELSE IF e # Null THEN "error"
            ELSE IF d = <<>> THEN "empty"
            ELSE "chart"
    /\ cError \in ChartErrors \cup {Null}
    /\ (~cLoading /\ cError = Null /\ cData = <<>>)
          => StockChartView(cLoading, cError, cData) = "empty"
    /\ (~cLoading /\ cError # Null)
          => StockChartView(cLoading, cError, cData) = "error"

\* a fetch whose points were all rejected by validation: the empty view
C25_Witness ==
    /\ ChartDone
    /\ Len(cBody.points) >= 1
    /\ cError = Null
    /\ cData = <<>>
    /\ StockChartView(cLoading, cError, cData) = "empty"

\* the period and interval the claim gives for each range
ClaimedPeriod(range) ==
    CASE range = "1D"  -> <<"1d", "1h">>
      [] range = "5D"  -> <<"5d", "1d">>
      [] range = "1M"  -> <<"1mo", "1d">>
      [] range = "3M"  -> <<"3mo", "1d">>
      [] range = "6M"  -> <<"6mo", "1d">>
      [] range = "YTD" -> <<"ytd", "1d">>
      [] range = "1Y"  -> <<"1y", "1d">>
      [] range = "5Y"  -> <<"5y", "1d">>
      [] range = "All" -> <<"max", "1d">>

\* C30 (range selection determines the fetch key): the period and interval
\* passed to useStockChart are those of the range shown as selected.
C30_RangeDeterminesKey ==
    /\ vSelectedRange \in Ranges
    /\ <<vPeriod, vInterval>> = ClaimedPeriod(vSelectedRange)

-----------------------------------------------------------------------------
(* Properties of the retry layer, under SpecRetry / FairSpecRetry *)

Settled == {"resolved", "rejected"}

\* C4 (Bounded retry): every logical network operation terminates, through
\* retryApiRequest and through the interceptor of the axios instance.
C4_Terminates == <>(rPc \in Settled) /\ <>(xPc \in Settled)

AllTimeouts(calls) == \A j \in 1..Len(calls) : calls[j] = "timeout"

\* C5 (Retry bound): with maxRetries = 3, when every invocation times out the
\* failure is surfaced after exactly 4 invocations.
C5_FourAttempts ==
    (rPc = "rejected" /\ rMaxRetries = 3 /\ AllTimeouts(rCalls))
        => Len(rCalls) = 4

\* C6 (Recovery within the budget): with maxRetries = 3, after two timeouts a
\* third invocation is made; when it succeeds the caller gets its payload
\* and no further invocation is made.
C6_RecoversOnThird ==
    (rMaxRetries = 3 /\ Len(rCalls) >= 2
        /\ rCalls[1] = "timeout" /\ rCalls[2] = "timeout")
    => /\ Len(rCalls) = 2 => rPc \in {"backoff", "calling"}
       /\ (Len(rCalls) >= 3 /\ rCalls[3] \in RPayloads)
            => (rPc = "resolved" /\ rResult = rCalls[3] /\ Len(rCalls) = 3)

\* two timeouts, then a success on the third invocation, with maxRetries = 3
C6_Witness ==
    /\ rMaxRetries = 3
    /\ rPc = "resolved"
    /\ Len(rCalls) = 3
    /\ rCalls[1] = "timeout" /\ rCalls[2] = "timeout"
    /\ rCalls[3] \in RPayloads

\* C23 (retry exhaustion surfaces the last error): when every invocation
\* failed, retryApiRequest rejects with the error of the last invocation,
\* after one invocation per attempt, and every invocation but the first
\* starts only when the wait that followed the previous failure has elapsed.
C23_LastErrorSurfaces ==
    /\ []((rPc = "rejected" /\ Len(rCalls) >= 1) =>
            /\ \A j \in 1..Len(rCalls) : rCalls[j] \in RErrors
            /\ Len(rCalls) = rMaxRetries
            /\ rResult = rCalls[Len(rCalls)])
    /\ []((rPc = "calling") => (Len(rCalls) = rI /\ rTimer = 0))
    /\ [][(rPc' = "calling" /\ Len(rCalls') >= 1
              /\ (rPc # "calling" \/ rCalls' # rCalls))
             => (rPc = "backoff" /\ rCalls' = rCalls
                   /\ rCalls[Len(rCalls)] \in RErrors)]_vars

\* three failed invocations, the first a timeout and the last a network error
C23_Witness ==
    /\ rPc = "rejected"
    /\ Len(rCalls) = 3
    /\ rCalls[1] = "timeout"
    /\ rCalls[3] = "network"
    /\ rResult = "network"

\* the timeout test as the claim words it
TimedOut(err) == err.code = "ECONNABORTED" \/ err.timeoutInMessage

\* C24 (interceptor timeout retry): a timeout of a request that has a config
\* is followed by a wait of 3 seconds and one re-issue of the request; the
\* caller gets the response of the re-issued request when it succeeds and a
\* rejection when it fails, and a timeout is never handed to the caller as a
\* response.
C24_TimeoutRetried ==
    /\ [](xPc = "resolved" => xResult = "response")
    /\ [](xPc = "backoff" => (TimedOut(xErr) /\ xHasConfig /\ xTimer = 3000))
    /\ [][(xPc = "backoff" /\ xVars' # xVars) => xPc' = "inflight"]_vars
    /\ [][(xPc = "inflight" /\ xSent >= 2 /\ xPc' # "inflight")
             => xPc' \in {"resolved", "rejected"}]_vars

\* C17 (linear backoff): a wait is pending only after a failed invocation that
\* another invocation will follow, and the wait after the n-th invocation
\* (index i = n - 1) is delay * n.
C17_LinearBackoff ==
    /\ rPc = "backoff" =>
         /\ Len(rCalls) >= 1
         /\ rI = Len(rCalls) - 1
         /\ rTimer = rDelay * (rI + 1)
         /\ Len(rCalls) < rMaxRetries
    /\ rPc # "backoff" => rTimer = 0

\* the wait after the second failed invocation, with delay 1000
C17_Witness ==
    /\ rPc = "backoff"
    /\ Len(rCalls) = 2
    /\ rDelay = 1000
    /\ rTimer = 2000

\* C16 (HTTP errors are not retried): once the interceptor has been handed an
\* error that carries an HTTP status, the request is rejected to the caller
\* with no further send; and a non-ok answer of /auth/me is the last
\* invocation of fetchUserData: retryApiRequest resolves and the user is
\* logged out.
C16_HttpErrorsNotRetried ==
    /\ xErr.status # 0 => (xPc = "rejected" /\ xResult = "error")
    /\ Len(rCalls) = Len(aResponses)
    /\ \A j \in 1..Len(aResponses) :
         aResponses[j] = "notok"
            => (j = Len(aResponses) /\ rPc = "resolved"
                  /\ aUser = Null /\ aToken = Null)

\* /auth/me answered non-ok after a failed invocation, and the interceptor
\* met an HTTP error after a timeout it retried
C16_Witness ==
    /\ Len(aResponses) >= 2
    /\ aResponses[Len(aResponses)] = "notok"
    /\ xErr.status # 0
    /\ xSent >= 2

\* C27 (logout is final until the next login): in every state a user that is
\* set has a token; no completion of fetchUserData after logout() sets the
\* user again.
C27_UserImpliesToken == aUser # Null => aToken # Null

-----------------------------------------------------------------------------
(* Properties of useStock, under SpecHook *)

\* the completion of the only call made so far
FirstFetchSettles(op) == hEv'.op = op /\ Len(hCalls) = 1

\* C18 as stated (useStock on success): when the first getStockInfo call
\* resolves with v, the hook ends with loading false, data v and error null.
C18_DataIsResolvedValue ==
    [][FirstFetchSettles("resolve")
          => (hLoading' = FALSE /\ hData' = hEv'.arg /\ hError' = Null)]_vars

\* C18 amended: the frontend hook ends with data v and error null; the src
\* hook, whose service resolves with the envelope, ends with data v.data and
\* error null when v is an envelope with success and data, and otherwise with
\* data null and the error 'Invalid data structure received'; loading is false
\* in every case.
C18_DataIsValueOrUnwrapped ==
    [][FirstFetchSettles("resolve") =>
          LET v == hEv'.arg IN
          /\ hLoading' = FALSE
          /\ IF hVariant = "frontend"
             THEN hData' = v /\ hError' = Null
             ELSE IF v.kind = "envelope" /\ v.success /\ v.payload # "undefined"
                  THEN hData' = StockInfo(v.payload) /\ hError' = Null
                  ELSE hData' = NullData
                         /\ hError' = "Invalid data structure received"]_vars

\* the src hook after its first call resolved with {success: true, data}
C18_Witness ==
    /\ hVariant = "src"
    /\ hEv.op = "resolve"
    /\ Len(hCalls) = 1
    /\ hEv.arg = Envelope(TRUE, "AAPL")
    /\ hData = StockInfo("AAPL")
    /\ ~hLoading

\* C19 (useStock on failure): when getStockInfo rejects with e, the hook ends
\* with loading false, error e.message (the fallback text when e is no Error)
\* and data as it was.
C19_FailureKeepsData ==
    [][hEv'.op = "reject" =>
          /\ hLoading' = FALSE
          /\ hError' = IF hEv'.arg.isError THEN hEv'.arg.message
                       ELSE "Failed to fetch stock data"
          /\ hData' = hData]_vars

\* the first fetch rejected with new Error('API Error')
C19_Witness ==
    /\ hEv.op = "reject"
    /\ hEv.arg = Thrown(TRUE, "API Error")
    /\ Len(hCalls) = 1
    /\ hError = "API Error"
    /\ hData = NullData
    /\ ~hLoading

NonEmptySymbol(symbol) == symbol # ""

\* C20 (useStock refetches on key change): every render with a new non-empty
\* symbol starts exactly one getStockInfo call for it and sets loading true
\* and error null; the calls made are the non-empty symbols rendered, one
\* each, in order.
C20_RefetchOnKeyChange ==
    /\ [](hCalls = SelectSeq(hEffects, NonEmptySymbol))
    /\ [][(hEv'.op \in {"mount", "rerender"} /\ hSymbol' # "") =>
            /\ hCalls' = Append(hCalls, hSymbol')
            /\ hInflight' = hInflight \cup {[id |-> hNextId, symbol |-> hSymbol']}
            /\ [id |-> hNextId, symbol |-> hSymbol'] \notin hInflight
            /\ hLoading' = TRUE
            /\ hError' = Null]_vars

\* three successive distinct symbols, three calls
C20_Witness ==
    /\ hEv.op = "rerender"
    /\ Len(hCalls) = 3
    /\ hCalls[1] # hCalls[2] /\ hCalls[2] # hCalls[3]
    /\ hLoading
    /\ hError = Null

-----------------------------------------------------------------------------
(* Properties of StockSearch, under SpecSearch *)

\* C21 (StockSearch notifies its parent of every query): whenever the input
\* changes to q, onSearch is called with q.
C21_OnSearchCalled ==
    [][sEv'.op = "input" => sOnSearch' = Append(sOnSearch, sEv'.arg)]_vars

\* C26 (the loading flag tracks outstanding fetches): loading is true in
\* every state in which a getStockInfo call of the hook is outstanding.
C26_LoadingTracksFetches == hInflight # {} => hLoading

-----------------------------------------------------------------------------
(* Properties of StockSearch, continued *)

\* C28 (the suggestions match the latest query): an input shorter than 2
\* characters issues no call and clears the suggestions; once no searchStocks
\* call is outstanding, the suggestions shown are the result of the latest
\* input (empty when it was short, when its search failed or after a click
\* on a suggestion).
C28_SuggestionsMatchLatest ==
    /\ [][(sEv'.op = "input" /\ sEv' # sEv /\ Len(sQuery') < 2)
            => (sInflight' = sInflight /\ sSuggestions' = <<>>)]_vars
    /\ [](sInflight = {} => sSuggestions = sExpected)

====
